---- MODULE Spec2Model ----
(***************************************************************************)
(* Model of src/App.js: the schema-driven form (DynamicForm) and its       *)
(* loader (App).  The React state of DynamicForm (formData, errors), the   *)
(* POST requests in flight and the alerts shown are the state; every event *)
(* handler is one action.                                                  *)
(***************************************************************************)
EXTENDS Integers, Sequences, FiniteSets, TLC

VARIABLES
  configs,    \* App: the configs state, <<>> while it is null
  loader,     \* App: where getConfigs stands
  formData,   \* DynamicForm: the formData state
  errors,     \* DynamicForm: the errors state
  requests,   \* the POSTs sent by submit and not yet settled
  keyboard,   \* whether the keyboard is up
  nSubmits,   \* the number of calls of handleSubmit so far
  log,        \* for each call of handleSubmit, what it did
  lastChange, \* the field-change event handled last, if no press came after it
  vElement, vValue, vResult  \* arguments and result of a validateInput call

valVars == <<vElement, vValue, vResult>>
vars == <<configs, loader, formData, errors, requests, keyboard, nSubmits, log,
          lastChange, vElement, vValue, vResult>>

(***************************************************************************)
(* Bounds                                                                  *)
(***************************************************************************)
\* longest string handed to validateInput, and largest bound of a length rule
MaxLen == 2
\* number of presses of the submit button in one behaviour
MaxSubmits == 2
\* longest validator sequence drawn for validateInput
MaxRules == 3

Chars == {"a", "1"}

(***************************************************************************)
(* JavaScript values held in formData: strings (sequences of characters)   *)
(* and booleans.  An absent key reads as undefined.                        *)
(***************************************************************************)
Str(s) == [t |-> "string", s |-> s, b |-> FALSE]
Bool(b) == [t |-> "boolean", s |-> <<>>, b |-> b]
Undefined == [t |-> "undefined", s |-> <<>>, b |-> FALSE]

\* obj[key] of a JavaScript object
Get(obj, key) == IF key \in DOMAIN obj THEN obj[key] ELSE Undefined

\* an object that holds the new member alone: the spread is left out
PutAlone(obj, key, value) == [k \in {key} |-> value]

\* {...obj, [key]: value}
Put(obj, key, value) ==
  [k \in (DOMAIN obj) \cup {key} |-> IF k = key THEN value ELSE obj[k]]

\* {}
EmptyObject == [k \in {} |-> Undefined]

\* truthiness of a value: "", false and undefined are falsy
Truthy(v) ==
  CASE v.t = "string" -> v.s # <<>>
    [] v.t = "boolean" -> v.b
    [] OTHER -> FALSE

\* v || ""
OrEmpty(v) == IF Truthy(v) THEN v ELSE Str(<<>>)

\* String(v), as RegExp.prototype.test converts its argument
ToJSString(v) ==
  CASE v.t = "string" -> v.s
    [] v.t = "boolean" -> IF v.b THEN <<"t", "r", "u", "e">>
                                 ELSE <<"f", "a", "l", "s", "e">>
    [] OTHER -> <<"u", "n", "d", "e", "f", "i", "n", "e", "d">>

\* strings over Chars of length at most n
RECURSIVE StringsUpTo(_)
StringsUpTo(n) ==
  IF n = 0 THEN {<<>>}
  ELSE LET shorter == StringsUpTo(n - 1)
       IN  shorter \cup {Append(s, c) : s \in shorter, c \in Chars}

\* the texts typed into a field in the form model: the empty text, a text
\* without a digit and a text with one
Typed == {<<>>, <<"a">>, <<"a", "1">>}

(***************************************************************************)
(* Validator rules.  A rule is a record {type, operator, value, regexp};   *)
(* the fields a rule does not use hold "" or 0.                            *)
(***************************************************************************)
LengthRule(op, n) == [type |-> "length", operator |-> op, value |-> n, regexp |-> ""]
PatternRule(re) == [type |-> "pattern", operator |-> "", value |-> 0, regexp |-> re]
OtherRule == [type |-> "range", operator |-> "", value |-> 0, regexp |-> ""]

\* the regular expressions of the model; "(" does not compile
ReStartsWithA == "^a"
ReHasDigit == "1"
ReInvalid == "("

\* new RegExp(re) throws a SyntaxError
RegExpThrows(re) == re = ReInvalid

\* new RegExp(re).test(s)
RegExpTest(re, s) ==
  CASE re = ReStartsWithA -> s # <<>> /\ s[1] = "a"
    [] re = ReHasDigit -> \E i \in 1..Len(s) : s[i] = "1"
    [] OTHER -> FALSE

\* comparisons that are off by one at the bound
LengthLeqStrict(v, n) == v.t = "string" /\ Len(v.s) < n
LengthLessLoose(v, n) == v.t = "string" /\ Len(v.s) <= n

\* value.length <= n and value.length < n; the length of a boolean is
\* undefined and every comparison with it is false
LengthLeq(v, n) == v.t = "string" /\ Len(v.s) <= n
LengthLess(v, n) == v.t = "string" /\ Len(v.s) < n

\* a message that leaves the bound out
MsgAtLeastNoBound(label, n) ==
  "Value of " \o label \o " field must be at least characters long"

MsgLonger(label, n) ==
  "Value of " \o label \o " field must be longer than " \o ToString(n) \o " characters"
MsgAtLeast(label, n) ==
  "Value of " \o label \o " field must be at least " \o ToString(n) \o " characters long"
MsgFormat(label) == "Invalid format for " \o label \o " field"
MsgRequired(label) == label \o " is required"

\* results of validateInput: null, an error message, or a thrown exception
Null == [kind |-> "null", msg |-> ""]
Message(m) == [kind |-> "message", msg |-> m]
Thrown == [kind |-> "throw", msg |-> "SyntaxError"]

\* one iteration of the loop of validateInput: the value returned by the
\* rule, Null when the loop goes on to the next rule
ApplyRule(label, rule, value) ==
  CASE rule.type = "length" ->
         IF rule.operator = "gt" /\ LengthLeq(value, rule.value)
           THEN Message(MsgLonger(label, rule.value))
         ELSE IF rule.operator = "gte" /\ LengthLess(value, rule.value)
           THEN Message(MsgAtLeast(label, rule.value))
         ELSE Null
    [] rule.type = "pattern" ->
         IF RegExpThrows(rule.regexp) THEN Thrown
         ELSE IF ~RegExpTest(rule.regexp, ToJSString(value))
           THEN Message(MsgFormat(label))
         ELSE Null
    [] OTHER -> Null

\* a loop that keeps the message of the last failing rule
RECURSIVE ValidateFromLast(_, _, _, _)
ValidateFromLast(label, rules, value, i) ==
  IF i > Len(rules) THEN Null
  ELSE LET r == ApplyRule(label, rules[i], value)
           rest == ValidateFromLast(label, rules, value, i + 1)
       IN  IF r = Thrown \/ rest = Null THEN r ELSE rest

\* the loop of validateInput from rule i on
RECURSIVE ValidateFrom(_, _, _, _)
ValidateFrom(label, rules, value, i) ==
  IF i > Len(rules) THEN Null
  ELSE LET r == ApplyRule(label, rules[i], value)
       IN  IF r # Null THEN r
           ELSE ValidateFrom(label, rules, value, i + 1)

validateInput(element, value) ==
  ValidateFrom(element.label, element.validator, value, 1)

(***************************************************************************)
(* Blueprints.  An element is a record {type, name, label, required,       *)
(* hasValidator, validator}; hasValidator tells whether the document gives *)
(* the element a validator array.  A block is a row of columns or a flat   *)
(* list of elements.                                                       *)
(***************************************************************************)
Field(type, name, label, required, rules) ==
  [type |-> type, name |-> name, label |-> label, required |-> required,
   hasValidator |-> TRUE, validator |-> rules]
PlainField(type, name, label, required) ==
  [type |-> type, name |-> name, label |-> label, required |-> required,
   hasValidator |-> FALSE, validator |-> <<>>]
Heading(text) == PlainField("heading", "", text, FALSE)
SubmitButton == PlainField("submit", "", "Send", FALSE)

Column(elements) == [size |-> 1, elements |-> elements]
Row(columns) == [type |-> "row", columns |-> columns, elements |-> <<>>]
Block(elements) == [type |-> "block", columns |-> <<>>, elements |-> elements]

\* a row of two columns: a required text field with two rules, and a
\* password with a length rule next to the submit button
RegistrationForm ==
  << Row(<< Column(<< Heading("Register"),
                      Field("input", "email", "Email", TRUE,
                            << LengthRule("gt", 0), PatternRule(ReHasDigit) >>) >>),
            Column(<< Field("password", "pwd", "Password", FALSE,
                            << LengthRule("gte", 1) >>),
                      SubmitButton >>) >>) >>

\* a block-kind container with a required text field, and a row with a
\* required checkbox
ConsentForm ==
  << Block(<< Field("input", "nick", "Nick", TRUE, << PatternRule(ReStartsWithA) >>) >>),
     Row(<< Column(<< PlainField("checkbox", "agree", "Agree", TRUE),
                      SubmitButton >>) >>) >>

\* a required field whose rules pass on the empty text, and a required field
\* whose first rule fails on it and whose second rule carries a regular
\* expression that does not compile
ProfileForm ==
  << Row(<< Column(<< Field("input", "bio", "Bio", TRUE,
                            << OtherRule, LengthRule("gte", 0) >>),
                      Field("input", "code", "Code", TRUE,
                            << LengthRule("gt", 1), PatternRule(ReInvalid) >>),
                      SubmitButton >>) >>) >>

Blueprints == {RegistrationForm, ConsentForm, ProfileForm}

\* concatenation of a sequence of sequences
RECURSIVE Flatten(_)
Flatten(ss) == IF ss = <<>> THEN <<>> ELSE Head(ss) \o Flatten(Tail(ss))

\* a traversal that also walks the elements of "block" blocks
BlockVisitedAll(block) ==
  IF block.type = "row"
    THEN Flatten([i \in 1..Len(block.columns) |-> block.columns[i].elements])
    ELSE block.elements

\* the elements handleSubmit visits, in the order of its three nested
\* forEach loops: blocks of type "row", their columns, their elements
BlockVisited(block) ==
  IF block.type = "row"
    THEN Flatten([i \in 1..Len(block.columns) |-> block.columns[i].elements])
    ELSE <<>>
Visited(blueprint) ==
  Flatten([i \in 1..Len(blueprint) |-> BlockVisited(blueprint[i])])

\* the elements the component renders: those of "block" blocks and those of
\* the columns of "row" blocks
BlockRendered(block) ==
  IF block.type = "block" THEN block.elements
  ELSE IF block.type = "row"
    THEN Flatten([i \in 1..Len(block.columns) |-> block.columns[i].elements])
  ELSE <<>>
Rendered(blueprint) ==
  Flatten([i \in 1..Len(blueprint) |-> BlockRendered(blueprint[i])])

\* a loop body that runs the required check before the validator
VisitElementValidatorLast(acc, element, data) ==
  IF acc.threw THEN acc
  ELSE
    LET value == Get(data, element.name)
        error == IF element.hasValidator
                   THEN validateInput(element, OrEmpty(value))
                   ELSE Null
        afterRequired ==
          IF element.required /\ ~Truthy(value)
            THEN [acc EXCEPT
                    !.validationErrors = Put(@, element.name, MsgRequired(element.label)),
                    !.hasErrors = TRUE]
            ELSE acc
    IN  IF error.kind = "throw" THEN [acc EXCEPT !.threw = TRUE]
        ELSE IF error.kind = "message"
          THEN [afterRequired EXCEPT
                  !.validationErrors = Put(@, element.name, error.msg),
                  !.hasErrors = TRUE]
        ELSE afterRequired

\* the body of the innermost forEach of handleSubmit on one element, acting
\* on the locals validationErrors and hasErrors; threw is set when
\* validateInput throws, which ends the handler
VisitElement(acc, element, data) ==
  IF acc.threw THEN acc
  ELSE
    LET value == Get(data, element.name)
        error == IF element.hasValidator
                   THEN validateInput(element, OrEmpty(value))
                   ELSE Null
        afterValidator ==
          IF error.kind = "message"
            THEN [acc EXCEPT !.validationErrors = Put(@, element.name, error.msg),
                             !.hasErrors = TRUE]
            ELSE acc
    IN  IF error.kind = "throw" THEN [acc EXCEPT !.threw = TRUE]
        ELSE IF element.required /\ ~Truthy(value)
          THEN [afterValidator EXCEPT
                  !.validationErrors = Put(@, element.name, MsgRequired(element.label)),
                  !.hasErrors = TRUE]
        ELSE afterValidator

RECURSIVE VisitFrom(_, _, _, _)
VisitFrom(acc, elements, data, i) ==
  IF i > Len(elements) THEN acc
  ELSE VisitFrom(VisitElement(acc, elements[i], data), elements, data, i + 1)

\* a traversal that adds to the errors already published
TraverseStale(blueprint, data) ==
  VisitFrom([validationErrors |-> errors, hasErrors |-> FALSE, threw |-> FALSE],
            Visited(blueprint), data, 1)

\* the validation part of handleSubmit: the locals after the traversal
Traverse(blueprint, data) ==
  VisitFrom([validationErrors |-> EmptyObject, hasErrors |-> FALSE, threw |-> FALSE],
            Visited(blueprint), data, 1)

\* a serialisation that leaves out the members with a falsy value
JSONStringifyTruthy(data) == {<<k, data[k]>> : k \in {n \in DOMAIN data : Truthy(data[n])}}

\* JSON.stringify(data): the members of the object as name/value pairs
JSONStringify(data) == {<<k, data[k]>> : k \in DOMAIN data}

(***************************************************************************)
(* The handlers                                                            *)
(***************************************************************************)
\* a handleSubmit that does not return after publishing the errors
SubmitResultNoReturn(blueprint, data) ==
  LET t == Traverse(blueprint, data)
  IN  IF t.threw
        THEN [threw |-> TRUE, errs |-> EmptyObject, setErrors |-> FALSE,
              errors |-> EmptyObject, alerts |-> <<>>, posts |-> 0]
      ELSE [threw |-> FALSE, errs |-> t.validationErrors, setErrors |-> TRUE,
            errors |-> EmptyObject,
            alerts |-> IF t.hasErrors THEN <<"Validation Error">> ELSE <<>>,
            posts |-> 1]

\* a handleSubmit that calls submit twice
SubmitResultTwice(blueprint, data) ==
  LET t == Traverse(blueprint, data)
  IN  IF t.threw
        THEN [threw |-> TRUE, errs |-> EmptyObject, setErrors |-> FALSE,
              errors |-> EmptyObject, alerts |-> <<>>, posts |-> 0]
      ELSE IF t.hasErrors
        THEN [threw |-> FALSE, errs |-> t.validationErrors, setErrors |-> TRUE,
              errors |-> t.validationErrors,
              alerts |-> <<"Validation Error">>, posts |-> 0]
      ELSE [threw |-> FALSE, errs |-> t.validationErrors, setErrors |-> TRUE,
            errors |-> EmptyObject, alerts |-> <<>>, posts |-> 2]

\* a handleSubmit that reports a thrown validation as a validation failure
SubmitResultCatches(blueprint, data) ==
  LET t == Traverse(blueprint, data)
  IN  IF t.threw \/ t.hasErrors
        THEN [threw |-> t.threw, errs |-> t.validationErrors, setErrors |-> TRUE,
              errors |-> t.validationErrors,
              alerts |-> <<"Validation Error">>, posts |-> 0]
      ELSE [threw |-> FALSE, errs |-> t.validationErrors, setErrors |-> TRUE,
            errors |-> EmptyObject, alerts |-> <<>>, posts |-> 1]

\* a handleSubmit that publishes the errors without alerting
SubmitResultSilent(blueprint, data) ==
  LET t == Traverse(blueprint, data)
  IN  IF t.threw
        THEN [threw |-> TRUE, errs |-> EmptyObject, setErrors |-> FALSE,
              errors |-> EmptyObject, alerts |-> <<>>, posts |-> 0]
      ELSE IF t.hasErrors
        THEN [threw |-> FALSE, errs |-> t.validationErrors, setErrors |-> TRUE,
              errors |-> t.validationErrors, alerts |-> <<>>, posts |-> 0]
      ELSE [threw |-> FALSE, errs |-> t.validationErrors, setErrors |-> TRUE,
            errors |-> EmptyObject, alerts |-> <<>>, posts |-> 1]

\* handleSubmit up to its await: what the call does with the locals of the
\* traversal.  posts is the number of calls of submit; nothing is done when
\* validateInput throws
SubmitResult(blueprint, data) ==
  LET t == Traverse(blueprint, data)
  IN  IF t.threw
        THEN [threw |-> TRUE, errs |-> EmptyObject, setErrors |-> FALSE,
              errors |-> EmptyObject, alerts |-> <<>>, posts |-> 0]
      ELSE IF t.hasErrors
        THEN [threw |-> FALSE, errs |-> t.validationErrors, setErrors |-> TRUE,
              errors |-> t.validationErrors,
              alerts |-> <<"Validation Error">>, posts |-> 0]
      ELSE [threw |-> FALSE, errs |-> t.validationErrors, setErrors |-> TRUE,
            errors |-> EmptyObject, alerts |-> <<>>, posts |-> 1]

\* a continuation that leaves formData alone on success
AfterAwaitKeeps(reply, data) ==
  IF reply \in {"2xx", "non2xx"}
    THEN [alert |-> "Success", formData |-> data, dismiss |-> TRUE]
    ELSE [alert |-> "Error", formData |-> data, dismiss |-> FALSE]

\* a continuation that clears formData whether the POST succeeded or not
AfterAwaitClearsAlways(reply, data) ==
  IF reply \in {"2xx", "non2xx"}
    THEN [alert |-> "Success", formData |-> EmptyObject, dismiss |-> TRUE]
    ELSE [alert |-> "Error", formData |-> EmptyObject, dismiss |-> FALSE]

\* handleSubmit after its await: the try block goes on when the promise of
\* fetch resolves, which it does on every HTTP response, and the catch block
\* runs when it rejects
AfterAwait(reply, data) ==
  IF reply \in {"2xx", "non2xx"}
    THEN [alert |-> "Success", formData |-> EmptyObject, dismiss |-> TRUE]
    ELSE [alert |-> "Error", formData |-> data, dismiss |-> FALSE]

Replies == {"2xx", "non2xx", "rejected"}

IsTextField(element) == element.type \in {"input", "password"}
IsCheckBox(element) == element.type = "checkbox"
RenderedElements == {Rendered(configs)[i] : i \in 1..Len(Rendered(configs))}
Mounted == loader = "done"

NoChange == [name |-> "", value |-> Undefined]

NoCall == [errs |-> EmptyObject, threw |-> FALSE, posts |-> 0,
           reply |-> "none", alerts |-> <<>>]

Init ==
  /\ configs = <<>>
  /\ loader = "pending"
  /\ formData = EmptyObject
  /\ errors = EmptyObject
  /\ requests = {}
  /\ keyboard = FALSE
  /\ nSubmits = 0
  /\ log = <<>>
  /\ lastChange = NoChange
  /\ vElement = Heading("")
  /\ vValue = Undefined
  /\ vResult = Null

\* getConfigs: the GET is answered with a blueprint document
GetConfigsResolve(blueprint) ==
  /\ loader = "pending"
  /\ configs' = blueprint
  /\ loader' = "done"
  /\ UNCHANGED <<formData, errors, requests, keyboard, nSubmits, log, lastChange, valVars>>

\* getConfigs: the GET or the parse of its body fails; console.error
GetConfigsReject ==
  /\ loader = "pending"
  /\ loader' = "failed"
  /\ UNCHANGED <<configs, formData, errors, requests, keyboard, nSubmits, log,
                 lastChange, valVars>>

handleInputChange(name, value) ==
  formData' = Put(formData, name, value)

\* onChangeText of a rendered input or password
ChangeText(element, text) ==
  /\ Mounted
  /\ element \in RenderedElements
  /\ IsTextField(element)
  /\ handleInputChange(element.name, Str(text))
  /\ keyboard' = TRUE
  /\ lastChange' = [name |-> element.name, value |-> Str(text)]
  /\ UNCHANGED <<configs, loader, errors, requests, nSubmits, log, valVars>>

\* onClick of a rendered checkbox
ClickCheckBox(element) ==
  /\ Mounted
  /\ element \in RenderedElements
  /\ IsCheckBox(element)
  /\ handleInputChange(element.name, Bool(~Truthy(Get(formData, element.name))))
  /\ lastChange' = [name |-> element.name,
                    value |-> Bool(~Truthy(Get(formData, element.name)))]
  /\ UNCHANGED <<configs, loader, errors, requests, keyboard, nSubmits, log, valVars>>

\* onPress of the Pressable around the form: Keyboard.dismiss
PressOutside ==
  /\ Mounted
  /\ keyboard
  /\ keyboard' = FALSE
  /\ lastChange' = NoChange
  /\ UNCHANGED <<configs, loader, formData, errors, requests, nSubmits, log, valVars>>

\* a handleSubmit whose traversal writes the defaulted value of every
\* element it visits back into formData
HandleSubmitWritesDefaults ==
  /\ Mounted
  /\ \E element \in RenderedElements : element.type = "submit"
  /\ nSubmits < MaxSubmits
  /\ LET r == SubmitResult(configs, formData)
         id == nSubmits + 1
         names == {Visited(configs)[i].name : i \in 1..Len(Visited(configs))} \ {""}
     IN  /\ nSubmits' = id
         /\ errors' = IF r.setErrors THEN r.errors ELSE errors
         /\ formData' = [n \in (DOMAIN formData) \cup names |-> OrEmpty(Get(formData, n))]
         /\ requests' = requests \cup
              {[id |-> id, n |-> k, body |-> JSONStringify(formData)] : k \in 1..r.posts}
         /\ log' = Append(log, [NoCall EXCEPT !.errs = r.errs, !.threw = r.threw,
                                              !.posts = r.posts, !.alerts = r.alerts])
  /\ lastChange' = NoChange
  /\ UNCHANGED <<configs, loader, keyboard, valVars>>

\* onPress of a rendered submit element: handleSubmit up to its await
HandleSubmit ==
  /\ Mounted
  /\ \E element \in RenderedElements : element.type = "submit"
  /\ nSubmits < MaxSubmits
  /\ LET r == SubmitResult(configs, formData)
         id == nSubmits + 1
     IN  /\ nSubmits' = id
         /\ errors' = IF r.setErrors THEN r.errors ELSE errors
         /\ requests' = requests \cup
              {[id |-> id, n |-> k, body |-> JSONStringify(formData)] : k \in 1..r.posts}
         /\ log' = Append(log, [NoCall EXCEPT !.errs = r.errs, !.threw = r.threw,
                                              !.posts = r.posts, !.alerts = r.alerts])
  /\ lastChange' = NoChange
  /\ UNCHANGED <<configs, loader, formData, keyboard, valVars>>

\* the promise of a POST settles and the handleSubmit that awaits it goes on
FetchSettles(request, reply) ==
  /\ request \in requests
  /\ LET r == AfterAwait(reply, formData)
     IN  /\ formData' = r.formData
         /\ keyboard' = IF r.dismiss THEN FALSE ELSE keyboard
         /\ log' = [log EXCEPT ![request.id].reply = reply,
                               ![request.id].alerts = Append(@, r.alert)]
  /\ requests' = requests \ {request}
  /\ UNCHANGED <<configs, loader, errors, nSubmits, lastChange, valVars>>

Next ==
  \/ \E blueprint \in Blueprints : GetConfigsResolve(blueprint)
  \/ GetConfigsReject
  \/ \E element \in RenderedElements, text \in Typed : ChangeText(element, text)
  \/ \E element \in RenderedElements : ClickCheckBox(element)
  \/ PressOutside
  \/ HandleSubmit
  \/ \E request \in requests, reply \in Replies : FetchSettles(request, reply)

Spec == Init /\ [][Next]_vars

\* every POST that was sent is answered or rejected in the end
SomeFetchSettles ==
  \E request \in requests, reply \in Replies : FetchSettles(request, reply)

SpecFair == Spec /\ WF_vars(SomeFetchSettles)

(***************************************************************************)
(* validateInput on its own: an element and a value are drawn, then the    *)
(* function is called once.                                                *)
(***************************************************************************)
RuleSet ==
  {LengthRule(op, n) : op \in {"gt", "gte"}, n \in 0..MaxLen}
    \cup {LengthRule("gte", 10), LengthRule("lt", 1), OtherRule}
    \cup {PatternRule(re) : re \in {ReStartsWithA, ReHasDigit, ReInvalid}}

RECURSIVE SeqsUpTo(_, _)
SeqsUpTo(S, n) ==
  IF n = 0 THEN {<<>>}
  ELSE LET shorter == SeqsUpTo(S, n - 1)
       IN  shorter \cup {Append(q, x) : q \in shorter, x \in S}

\* the values handleSubmit hands to validateInput: a string, or true
ValidatedValues == {Str(s) : s \in StringsUpTo(MaxLen)} \cup {Bool(TRUE)}

NotCalled == [kind |-> "pending", msg |-> ""]

InitV ==
  /\ configs = <<>>
  /\ loader = "pending"
  /\ formData = EmptyObject
  /\ errors = EmptyObject
  /\ requests = {}
  /\ keyboard = FALSE
  /\ nSubmits = 0
  /\ log = <<>>
  /\ lastChange = NoChange
  /\ vElement \in {Field("input", "bio", "Bio", FALSE, rules) :
                     rules \in SeqsUpTo(RuleSet, MaxRules)}
  /\ vValue \in ValidatedValues
  /\ vResult = NotCalled

CallValidateInput ==
  /\ vResult = NotCalled
  /\ vResult' = validateInput(vElement, vValue)
  /\ UNCHANGED <<configs, loader, formData, errors, requests, keyboard,
                 nSubmits, log, lastChange, vElement, vValue>>

NextV == CallValidateInput

SpecV == InitV /\ [][NextV]_vars

(***************************************************************************)
(* Properties                                                              *)
(***************************************************************************)
Calls == 1..nSubmits
IsEmpty(obj) == DOMAIN obj = {}
VisitedElements == {Visited(configs)[i] : i \in 1..Len(Visited(configs))}

\* this step is a call of handleSubmit
SubmitStep == nSubmits' = nSubmits + 1
\* this step settles the POST of call id with the given reply
SettleStep(id, reply) == log[id].reply = "none" /\ log'[id].reply = reply

\* the error of one element on its own: the required message when the
\* element is required and its value is falsy, else what its rules give
FieldError(element, data) ==
  IF element.required /\ ~Truthy(Get(data, element.name))
    THEN Message(MsgRequired(element.label))
  ELSE IF element.hasValidator
    THEN ValidateFrom(element.label, element.validator,
                      OrEmpty(Get(data, element.name)), 1)
  ELSE Null

\* the errors of the elements of the row blocks, by name
ExpectedErrors(blueprint, data) ==
  LET elements == {Visited(blueprint)[i] : i \in 1..Len(Visited(blueprint))}
      failing == {e \in elements : FieldError(e, data).kind = "message"}
  IN  [n \in {e.name : e \in failing} |->
         FieldError(CHOOSE e \in failing : e.name = n, data).msg]

\* C1: a call of handleSubmit whose traversal yields a non-empty set of
\* errors sends no POST, then or later
C1_NoPostOnValidationErrors ==
  \A id \in Calls :
    ~IsEmpty(log[id].errs) =>
      /\ log[id].posts = 0
      /\ \A r \in requests : r.id # id

C1_Witness ==
  \E id \in Calls :
    /\ ~IsEmpty(log[id].errs)
    /\ log[id].posts = 0
    /\ log[id].alerts = <<"Validation Error">>

\* C2: when the POST of a call that passed validation gets a successful
\* response, formData becomes {} and the one alert of the call is Success
C2_SuccessClearsForm ==
  [][\A id \in Calls :
       SettleStep(id, "2xx") =>
         /\ IsEmpty(formData')
         /\ log'[id].alerts = <<"Success">>]_vars

C2_Witness ==
  /\ configs = RegistrationForm
  /\ \E id \in Calls : log[id].reply = "2xx" /\ log[id].alerts = <<"Success">>
  /\ IsEmpty(formData)

\* C3: when the POST is answered with a non-2xx response, the alert of the
\* call is Error and formData is not cleared
C3_Non2xxIsFailure ==
  [][\A id \in Calls :
       SettleStep(id, "non2xx") =>
         /\ log'[id].alerts = <<"Error">>
         /\ formData' = formData]_vars

\* C4: a call that sends a POST leaves formData as posted and errors empty;
\* when the POST is rejected the one alert of the call is Error and the
\* step changes neither formData nor errors
C4_RejectKeepsState ==
  [][/\ SubmitStep =>
          \A r \in requests' \ requests :
            r.body = JSONStringify(formData') /\ IsEmpty(errors')
     /\ \A id \in Calls :
          SettleStep(id, "rejected") =>
            /\ log'[id].alerts = <<"Error">>
            /\ formData' = formData
            /\ errors' = errors]_vars

C4_Witness ==
  /\ \E id \in Calls : log[id].reply = "rejected" /\ log[id].alerts = <<"Error">>
  /\ ~IsEmpty(formData)
  /\ IsEmpty(errors)
  /\ requests = {}

\* C5: at most one POST is outstanding
C5_AtMostOneOutstanding == Cardinality(requests) <= 1

\* C6: a call of handleSubmit sends at most one POST, exactly one when its
\* validation ends without errors, and none is outstanding for a call whose
\* POST has settled
C6_OnePostPerSubmit ==
  \A id \in Calls :
    /\ log[id].posts <= 1
    /\ Cardinality({r \in requests : r.id = id}) <= log[id].posts
    /\ (~log[id].threw /\ IsEmpty(log[id].errs)) => log[id].posts = 1
    /\ log[id].reply # "none" => \A r \in requests : r.id # id

C6_Witness ==
  /\ nSubmits = 1
  /\ log[1].posts = 1
  /\ log[1].reply = "rejected"
  /\ requests = {}

\* C7: when a POST gets a successful response, formData and errors are both
\* empty after the step
C7_SuccessLeavesBothEmpty ==
  [][\A id \in Calls :
       SettleStep(id, "2xx") => IsEmpty(formData') /\ IsEmpty(errors')]_vars

\* C8: a call of handleSubmit that completes validation publishes exactly
\* the errors of the elements of the row blocks on the formData of the call
C8_ErrorsRecomputed ==
  [][(SubmitStep /\ ~log'[nSubmits'].threw) =>
        errors' = ExpectedErrors(configs, formData)]_vars

C8_Witness ==
  \E id \in Calls :
    /\ id < nSubmits
    /\ ~IsEmpty(errors)
    /\ ~log[nSubmits].threw
    /\ errors = log[nSubmits].errs
    /\ \E m \in DOMAIN log[id].errs : m \notin DOMAIN errors

\* C9: after a call of handleSubmit that completes validation, every
\* required element of a row block whose value is empty, false or absent
\* has the required message as its error
C9_RequiredWins ==
  [][(SubmitStep /\ ~log'[nSubmits'].threw) =>
        \A e \in VisitedElements :
          (e.required /\ ~Truthy(Get(formData, e.name))) =>
            /\ e.name \in DOMAIN errors'
            /\ errors'[e.name] = MsgRequired(e.label)]_vars

C9_Witness ==
  /\ configs = ProfileForm
  /\ \E id \in Calls :
       /\ ~log[id].threw
       /\ DOMAIN log[id].errs = {"bio", "code"}
       /\ log[id].errs["bio"] = "Bio is required"
       /\ log[id].errs["code"] = "Code is required"

\* C10: validateInput returns what the first rule that does not pass gives:
\* the message of rule i when rule i fails and every earlier rule passes,
\* and null only when no rule fails
C10_FirstFailingRule ==
  vResult # NotCalled =>
    LET rules == vElement.validator
        Outcome(i) == ApplyRule(vElement.label, rules[i], vValue)
    IN  /\ \A i \in 1..Len(rules) :
             (Outcome(i).kind = "message" /\ \A j \in 1..(i - 1) : Outcome(j) = Null)
               => vResult = Outcome(i)
        /\ vResult = Null => \A i \in 1..Len(rules) : Outcome(i) = Null

C10_Witness ==
  /\ vResult.kind = "message"
  /\ Len(vElement.validator) = 3
  /\ ApplyRule(vElement.label, vElement.validator[1], vValue) = Null
  /\ vResult = ApplyRule(vElement.label, vElement.validator[2], vValue)
  /\ ApplyRule(vElement.label, vElement.validator[3], vValue).kind = "message"
  /\ ApplyRule(vElement.label, vElement.validator[3], vValue) # vResult

\* what rule i of the element of the validateInput call gives on its value
Outcome(i) == ApplyRule(vElement.label, vElement.validator[i], vValue)
\* rule i is reached: every rule before it passes
Reached(i) == \A j \in 1..(i - 1) : Outcome(j) = Null
RuleIndexes == 1..Len(vElement.validator)
IsLengthRule(i, op) ==
  vElement.validator[i].type = "length" /\ vElement.validator[i].operator = op

\* C11: a reached length rule with operator gt and bound N gives the
\* longer-than-N message for every string of length at most N, and the call
\* does not return that message for a string of length N+1 or more
C11_GtBoundary ==
  vResult # NotCalled =>
    \A i \in RuleIndexes :
      (IsLengthRule(i, "gt") /\ Reached(i) /\ vValue.t = "string") =>
        LET N == vElement.validator[i].value
            msg == Message(MsgLonger(vElement.label, N))
        IN  /\ Len(vValue.s) <= N => vResult = msg
            /\ Len(vValue.s) >= N + 1 => vResult # msg

C11_Witness ==
  /\ Len(vElement.validator) >= 2
  /\ IsLengthRule(2, "gt")
  /\ Reached(2)
  /\ vValue.t = "string"
  /\ Len(vValue.s) = vElement.validator[2].value
  /\ Len(vValue.s) >= 1
  /\ vResult = Message(MsgLonger(vElement.label, vElement.validator[2].value))

\* C12: a reached length rule with operator gte and bound N gives the
\* at-least-N message for every string of length less than N, and the call
\* does not return that message for a string of length N or more
C12_GteBoundary ==
  vResult # NotCalled =>
    \A i \in RuleIndexes :
      (IsLengthRule(i, "gte") /\ Reached(i) /\ vValue.t = "string") =>
        LET N == vElement.validator[i].value
            msg == Message(MsgAtLeast(vElement.label, N))
        IN  /\ Len(vValue.s) < N => vResult = msg
            /\ Len(vValue.s) >= N => vResult # msg

C12_Witness ==
  /\ Len(vElement.validator) >= 2
  /\ IsLengthRule(2, "gte")
  /\ Reached(2)
  /\ vValue.t = "string"
  /\ Len(vValue.s) + 1 = vElement.validator[2].value
  /\ vResult = Message(MsgAtLeast(vElement.label, vElement.validator[2].value))

\* the elements held in the containers of one kind
ElementsOfBlock(block) ==
  {block.elements[k] : k \in 1..Len(block.elements)}
    \cup UNION {{block.columns[j].elements[k] : k \in 1..Len(block.columns[j].elements)} :
                  j \in 1..Len(block.columns)}
ElementsOfKind(kind) ==
  UNION {ElementsOfBlock(configs[i]) : i \in {b \in 1..Len(configs) : configs[b].type = kind}}

\* C13: the elements of block-kind containers have no entry in the errors a
\* call of handleSubmit publishes, and a call in which no element of a row
\* has an error sends its POST
C13_BlockElementsNotValidated ==
  [][(SubmitStep /\ ~log'[nSubmits'].threw) =>
        /\ \A e \in ElementsOfKind("block") : e.name \notin DOMAIN errors'
        /\ (\A e \in ElementsOfKind("row") : FieldError(e, formData) = Null)
             => \E r \in requests' \ requests : r.id = nSubmits']_vars

\* a POST is in flight for ConsentForm although the required field nick of
\* its block-kind container has no value
C13_Witness ==
  /\ configs = ConsentForm
  /\ \E r \in requests : \A pair \in r.body : pair[1] # "nick"
  /\ IsEmpty(errors)

\* C14: the body of the POST a call of handleSubmit sends holds every name
\* of formData with its value, and nothing else
C14_BodyIsFormData ==
  [][SubmitStep =>
       \A r \in requests' \ requests :
         /\ \A k \in DOMAIN formData : <<k, formData[k]>> \in r.body
         /\ \A pair \in r.body :
              pair[1] \in DOMAIN formData /\ pair[2] = formData[pair[1]]]_vars

C14_Witness ==
  /\ configs = ConsentForm
  /\ \E r \in requests :
       /\ r.body = {<<"nick", Str(<<>>)>>, <<"agree", Bool(TRUE)>>}
       /\ DOMAIN formData = {"nick", "agree"}
       /\ formData["nick"] = Str(<<>>)
       /\ formData["agree"]= Bool(TRUE)

\* rule i of the element is a pattern rule whose regexp does not compile
InvalidPatternAt(element, i) ==
  element.validator[i].type = "pattern" /\ RegExpThrows(element.validator[i].regexp)
CarriesInvalidPattern(element) ==
  element.hasValidator /\ \E i \in 1..Len(element.validator) : InvalidPatternAt(element, i)
\* such a rule is reached on the value of the element: every rule before it
\* passes
ReachesInvalidPattern(element, data) ==
  /\ element.hasValidator
  /\ \E i \in 1..Len(element.validator) :
       /\ InvalidPatternAt(element, i)
       /\ \A j \in 1..(i - 1) :
            ApplyRule(element.label, element.validator[j],
                      OrEmpty(Get(data, element.name))) = Null

\* this call of handleSubmit ends in a hard failure: errors keeps its value,
\* nothing is alerted and no POST is sent
HardFailureStep ==
  /\ errors' = errors
  /\ log'[nSubmits'].alerts = <<>>
  /\ log'[nSubmits'].posts = 0
  /\ requests' = requests

\* C15 as stated: a call of handleSubmit on a blueprint in which a traversed
\* element carries a pattern rule with an invalid regexp ends in a hard
\* failure
C15_InvalidRegexpHardFailure ==
  [][(SubmitStep /\ \E e \in VisitedElements : CarriesInvalidPattern(e))
       => HardFailureStep]_vars

\* C15 as amended: a call of handleSubmit in which a pattern rule with an
\* invalid regexp is reached on the value of a traversed element ends in a
\* hard failure
C15_ReachedInvalidRegexpHardFailure ==
  [][(SubmitStep /\ \E e \in VisitedElements : ReachesInvalidPattern(e, formData))
       => HardFailureStep]_vars

C15_Witness ==
  /\ configs = ProfileForm
  /\ nSubmits >= 2
  /\ log[nSubmits].threw
  /\ log[nSubmits].alerts = <<>>
  /\ log[nSubmits].posts = 0
  /\ ~IsEmpty(errors)
  /\ requests = {}

\* this step is a field-change event
ChangeStep ==
  /\ lastChange' # NoChange
  /\ lastChange' # lastChange \/ (formData' # formData /\ log' = log)

\* C16: a call of handleSubmit that ends in the Validation Error alert
\* leaves formData as it was
C16_ValidationFailedKeepsFormData ==
  [][(SubmitStep /\ log'[nSubmits'].alerts = <<"Validation Error">>)
       => formData' = formData]_vars

C16_Witness ==
  /\ nSubmits >= 1
  /\ log[nSubmits].alerts = <<"Validation Error">>
  /\ errors = log[nSubmits].errs
  /\ lastChange = NoChange
  /\ Cardinality(DOMAIN formData) = 1
  /\ requests = {}

\* C17: a field-change event for a name and a value leaves the name mapped
\* to the value, every other entry of formData as it was and errors as it
\* was
C17_SetValueFrame ==
  [][ChangeStep =>
       /\ DOMAIN formData' = (DOMAIN formData) \cup {lastChange'.name}
       /\ formData'[lastChange'.name] = lastChange'.value
       /\ \A k \in (DOMAIN formData) \ {lastChange'.name} : formData'[k] = formData[k]
       /\ errors' = errors]_vars

C17_Witness ==
  /\ lastChange # NoChange
  /\ Cardinality(DOMAIN formData) = 2
  /\ formData[lastChange.name] = lastChange.value
  /\ ~IsEmpty(errors)

\* the outcomes a call of handleSubmit reports
Outcomes == {"Validation Error", "Success", "Error"}
NoPostPending(id) == \A r \in requests : r.id # id
OneOutcome(id) == Len(log[id].alerts) = 1 /\ log[id].alerts[1] \in Outcomes

\* C18 as stated, for the calls that are over: a call of handleSubmit with
\* no POST pending has reported exactly one outcome
C18_EverySubmitEndsInOneOutcome ==
  \A id \in Calls : NoPostPending(id) => OneOutcome(id)

\* C18 as amended: a call of handleSubmit whose validation completes never
\* reports more than one outcome, has reported one when no POST of it is
\* pending, and reports one in the end when every POST is settled in the end
C18_CompletedValidationEndsInOneOutcome ==
  /\ [](\A id \in Calls :
          ~log[id].threw =>
            /\ Len(log[id].alerts) <= 1
            /\ NoPostPending(id) => OneOutcome(id))
  /\ \A id \in 1..MaxSubmits :
       (nSubmits >= id /\ ~log[id].threw) ~> (nSubmits >= id /\ OneOutcome(id))

C18_Witness ==
  /\ nSubmits = 2
  /\ log[1].alerts = <<"Validation Error">>
  /\ log[2].reply = "rejected"
  /\ log[2].alerts = <<"Error">>
  /\ requests = {}

\* C20: a field-change event leaves the POSTs in flight as they were sent,
\* and when a POST gets a successful response formData becomes {} whatever
\* it held
C20_ChangesWhilePendingAreErased ==
  [][/\ ChangeStep => requests' = requests
     /\ \A r \in requests :
          (r \notin requests' /\ log'[r.id].reply = "2xx") => IsEmpty(formData')]_vars

\* email, which a posted body of RegistrationForm cannot hold as "a", was set
\* to "a" after the one submit and is gone after the success of its POST
C20_Witness ==
  /\ configs = RegistrationForm
  /\ nSubmits = 1
  /\ log[1].reply = "2xx"
  /\ lastChange = [name |-> "email", value |-> Str(<<"a">>)]
  /\ IsEmpty(formData)

\* rule i is a reached length rule with the given operator that fails on the
\* string of the validateInput call
FailingLengthRule(i, op) ==
  /\ IsLengthRule(i, op)
  /\ Reached(i)
  /\ vValue.t = "string"
  /\ IF op = "gt" THEN Len(vValue.s) <= vElement.validator[i].value
                  ELSE Len(vValue.s) < vElement.validator[i].value

\* C19 as stated: the message of a failing length rule is the label followed
\* by " field must be longer than <value> characters" for gt and by
\* " field must be at least <value> characters long" for gte
C19_MessageTextAsStated ==
  vResult # NotCalled =>
    \A i \in RuleIndexes :
      LET bound == ToString(vElement.validator[i].value)
      IN  /\ FailingLengthRule(i, "gt") =>
               vResult.msg = vElement.label \o " field must be longer than "
                               \o bound \o " characters"
          /\ FailingLengthRule(i, "gte") =>
               vResult.msg = vElement.label \o " field must be at least "
                               \o bound \o " characters long"

\* C19 as amended: the message is the text of the claim after "Value of "
C19_MessageText ==
  vResult # NotCalled =>
    \A i \in RuleIndexes :
      LET bound == ToString(vElement.validator[i].value)
      IN  /\ FailingLengthRule(i, "gt") =>
               vResult.msg = "Value of " \o vElement.label
                               \o " field must be longer than " \o bound \o " characters"
          /\ FailingLengthRule(i, "gte") =>
               vResult.msg = "Value of " \o vElement.label
                               \o " field must be at least " \o bound \o " characters long"

C19_Witness ==
  /\ vElement.label = "Bio"
  /\ vElement.validator = <<LengthRule("gte", 10)>>
  /\ vResult = Message("Value of Bio field must be at least 10 characters long")

====
